---- MODULE Spec2Model ----
(***************************************************************************)
(* A model of pytmc's pragma-driven configuration assembly engine          *)
(* (pytmc/xml_collector.py): PvPackage construction, the rule engine       *)
(* (term_exists / missing_pragma_lines / is_config_complete), chain        *)
(* expansion (assemble_package_chains), from_element_path, and              *)
(* ElementCollector.add.                                                   *)
(*                                                                         *)
(* Python values are modelled as tagged records: a string is PyStr(s), a   *)
(* dictionary is PyDict(d) with d a TLA+ record from keys to values, and   *)
(* None is PyNone.  A call either returns, Ok(v), or raises, Raise(e).     *)
(***************************************************************************)
EXTENDS Naturals, Sequences, FiniteSets, TLC

\* ------------------------------------------------------------------ bounds
\* Longest target_path the model draws.
MaxPath == 3
\* Most configuration-intent groups an ancestor element exposes.
MaxGroups == 2
\* Most configuration-intent groups the leaf of from_element_path exposes.
MaxLeafGroups == 2
\* Most ancestors above the leaf in a target_path of from_element_path.
MaxAncestors == 1
\* Most edits (append or remove of one record) applied to a fixture group
\* before a package is constructed from it.
MaxEdits == 1
\* Most calls of ElementCollector.add on one collector.
MaxAdds == 3

\* ----------------------------------------------------------- Python values
PyNone == [k |-> "none"]
PyStr(s) == [k |-> "str", s |-> s]
PyDict(d) == [k |-> "dict", d |-> d]

Ok(v) == [st |-> "ok", v |-> v]
Raise(e) == [st |-> e]

\* target[page] for a string key: a dictionary looks the key up (KeyError when
\* absent); a str or None indexed by a str is a TypeError.
GetItem(target, page) ==
    IF target.k = "dict"
    THEN IF page \in DOMAIN target.d THEN Ok(target.d[page]) ELSE Raise("KeyError")
    ELSE Raise("TypeError")

\* a + b on strings: str + str concatenates, anything else is a TypeError.
StrAdd(a, b) ==
    IF a.k = "str" /\ b.k = "str" THEN Ok(PyStr(a.s \o b.s)) ELSE Raise("TypeError")

\* The characters of the io values the model draws (a TLA+ string cannot be
\* indexed, so the values are spelled out).
Chars(s) ==
    CASE s = "i" -> <<"i">>
      [] s = "o" -> <<"o">>
      [] s = "io" -> <<"i", "o">>
      [] s = "x" -> <<"x">>
      [] OTHER -> <<>>

\* c in v, for a one-character c: substring test on a str, TypeError on None.
StrContains(c, v) ==
    IF v.k = "str" THEN Ok(\E n \in 1..Len(Chars(v.s)) : Chars(v.s)[n] = c)
    ELSE IF v.k = "dict" THEN Ok(c \in DOMAIN v.d)
    ELSE Raise("TypeError")

\* --------------------------------------------------------- pragma records
\* make_config(title, setting, field=False)
Line(title, setting) == PyDict([title |-> PyStr(title), tag |-> PyStr(setting)])
\* make_config(title, setting, field=True)
FieldLine(title, setting) ==
    PyDict([title |-> PyStr("field"),
            tag |-> PyDict([f_name |-> PyStr(title), f_set |-> PyStr(setting)])])

\* The legacy rule table: each rule line is an ordered mapping from a required
\* value to the key path at which it must be found.
ReqFieldsLegacy ==
    << << [term |-> "pv", loc |-> <<"title">>] >>,
       << [term |-> "type", loc |-> <<"title">>] >>,
       << [term |-> "str", loc |-> <<"title">>] >>,
       << [term |-> "io", loc |-> <<"title">>] >>,
       << [term |-> "field", loc |-> <<"title">>], [term |-> "DTYP", loc |-> <<"tag", "f_name">>] >>,
       << [term |-> "field", loc |-> <<"title">>], [term |-> "SCAN", loc |-> <<"tag", "f_name">>] >>,
       << [term |-> "field", loc |-> <<"title">>], [term |-> "INP", loc |-> <<"tag", "f_name">>] >> >>

\* ------------------------------------------------------------ rule engine
RECURSIVE WalkFrom(_, _, _)
\* for page in req_location: target = target[page]
WalkFrom(target, loc, n) ==
    IF n > Len(loc) THEN Ok(target)
    ELSE LET g == GetItem(target, loc[n])
         IN IF g.st = "ok" THEN WalkFrom(g.v, loc, n + 1) ELSE g

\* RowCheckFrom with only the first term of the rule line compared.
RowCheckFirstTerm(row, req_line, n) ==
    LET g == GetItem(row, req_line[1].loc[1])
    IN IF g.st = "ok" /\ g.v = PyStr(req_line[1].term) THEN "valid" ELSE "invalid"

RECURSIVE RowCheckFrom(_, _, _)
\* The inner loop of term_exists over the terms of one rule line, for one row:
\* "valid", "invalid" (a mismatch, or a KeyError along the path), or the name of
\* the exception that escapes the try block.
RowCheckFrom(row, req_line, n) ==
    IF n > Len(req_line) THEN "valid"
    ELSE LET w == WalkFrom(row, req_line[n].loc, 1)
         IN IF w.st = "KeyError" THEN "invalid"
            ELSE IF w.st # "ok" THEN w.st
            ELSE IF w.v = PyStr(req_line[n].term)
                 THEN RowCheckFrom(row, req_line, n + 1)
                 ELSE "invalid"

RowCheck(row, req_line) == RowCheckFrom(row, req_line, 1)

RECURSIVE TermScan(_, _, _)
TermScan(pragma, req_line, r) ==
    IF r > Len(pragma) THEN Ok(FALSE)
    ELSE LET c == RowCheck(pragma[r], req_line)
         IN IF c = "valid" THEN Ok(TRUE)
            ELSE IF c = "invalid" THEN TermScan(pragma, req_line, r + 1)
            ELSE Raise(c)

\* PvPackage.term_exists(req_line) on a package whose pragma is `pragma`.
term_exists(pragma, req_line) == TermScan(pragma, req_line, 1)

RECURSIVE MissingFrom(_, _, _, _)
MissingFrom(pragma, req_fields, n, rejection_list) ==
    IF n > Len(req_fields) THEN Ok(rejection_list)
    ELSE LET t == term_exists(pragma, req_fields[n])
         IN IF t.st # "ok" THEN t
            ELSE MissingFrom(pragma, req_fields, n + 1,
                             IF t.v THEN rejection_list
                             ELSE Append(rejection_list, req_fields[n]))

\* PvPackage.missing_pragma_lines()
missing_pragma_lines(pkg) == MissingFrom(pkg.pragma, pkg.req_fields, 1, <<>>)

\* PvPackage.is_config_complete
is_config_complete(pkg) ==
    LET m == missing_pragma_lines(pkg)
    IN IF m.st = "ok" THEN Ok(Len(m.v) = 0) ELSE m

\* ---------------------------------------------------- package construction
RECURSIVE PvScan(_, _, _)
\* for row in self.pragma: if row['title'] == 'pv': pv = row['tag']
\* (the local pv is "unbound" until a pv row is met; a later pv row rebinds it).
PvScan(pragma, r, pv) ==
    IF r > Len(pragma) THEN pv
    ELSE PvScan(pragma, r + 1,
                IF pragma[r].d.title = PyStr("pv") THEN pragma[r].d.tag ELSE pv)

Unbound == [k |-> "unbound"]

RECURSIVE PrefixFromAll(_, _, _)
\* PrefixFrom with the slice dropped: for entry in target_path.
PrefixFromAll(target_path, n, prefix) ==
    IF n > Len(target_path) THEN prefix
    ELSE PrefixFromAll(target_path, n + 1, prefix \o (target_path[n].pv \o ":"))

RECURSIVE PrefixFrom(_, _, _)
\* for entry in target_path[:-1]: self.prefix += (entry.pv + ":")
PrefixFrom(target_path, n, prefix) ==
    IF n > Len(target_path) - 1 THEN prefix
    ELSE PrefixFrom(target_path, n + 1, prefix \o (target_path[n].pv \o ":"))

\* PvPackage.__init__(target_path, pragma, proto_name, proto_file_name,
\* use_proto, version='legacy'): define_versions and set_version included.
PvPackageInit(target_path, pragma, proto_name, proto_file_name, use_proto) ==
    LET pv == PvScan(pragma, 1, Unbound)
        prefix == PrefixFrom(target_path, 1, "")
    IN IF pv.k = "unbound" THEN Raise("UnboundLocalError")
       ELSE IF pv.k # "str" THEN Raise("TypeError")
       ELSE Ok([target_path |-> target_path,
                pragma |-> pragma,
                pv_partial |-> pv.s,
                prefix |-> prefix,
                pv_complete |-> prefix \o pv.s,
                proto_name |-> proto_name,
                proto_file_name |-> proto_file_name,
                guessing_applied |-> FALSE,
                version |-> "legacy",
                req_fields |-> ReqFieldsLegacy,
                use_proto |-> TRUE])

\* ------------------------------------------------------------- elements
\* The Element collaborator (xml_obj.BaseElement): a name, a pv fragment and
\* the configuration-intent groups config_by_pv() yields.
ElemName == <<"MAIN", "dev", "axis", "ch", "sub">>

Element(n, groups) == [name |-> ElemName[n], pv |-> ElemName[n], groups |-> groups]

\* Element.config_by_pv()
config_by_pv(e) == e.groups

RECURSIVE ParseFrom(_, _, _)
ParseFrom(title, pragma, r) ==
    IF r > Len(pragma) THEN PyNone
    ELSE IF pragma[r].d.title = PyStr(title) THEN pragma[r].d.tag
    ELSE ParseFrom(title, pragma, r + 1)

\* BaseElement.parse_pragma(title, pragma): the tag of the record with this
\* title, None when the group has none.
parse_pragma(title, pragma) == ParseFrom(title, pragma, 1)

\* ------------------------------------------------------------- fixtures
\* Group A of the example scenario: pv, type and io only.
GroupA == << Line("pv", "count"), Line("type", "ai"), Line("io", "i") >>

\* Group B of the example scenario: a legacy-complete group.
GroupB ==
    << Line("pv", "limit"), Line("type", "ao"), Line("str", "%d"), Line("io", "o"),
       FieldLine("DTYP", "stream"), FieldLine("SCAN", "1 second"),
       FieldLine("INP", "@f") >>

\* The groups an edit sequence starts from.
FixtureGroups == { <<>>, GroupA, GroupB }

\* The records an edit may append: a second pv, doubles of required lines, and
\* a field record whose tag is a plain string.
EditRows ==
    { Line("pv", "extra"), Line("type", "bi"), Line("str", "%s"),
      FieldLine("DTYP", "asyn"), FieldLine("INP", "@g"), Line("field", "DTYP") }

RemoveAt(seq, n) == SubSeq(seq, 1, n - 1) \o SubSeq(seq, n + 1, Len(seq))

\* The target_path of length n used for a directly constructed package.
PlainPath(n) == [m \in 1..n |-> Element(m, <<>>)]

\* ------------------------------------------------------------------ state
VARIABLES
    in_path,     \* target_path handed to PvPackage(...)
    in_pragma,   \* pragma handed to PvPackage(...)
    edits,       \* edits applied to in_pragma so far
    pkg,         \* the constructed package: none, Ok(package) or Raise(e)
    last_call,   \* the last method called on the package, with its outcome
    removed,     \* the record removed from the package's pragma, if any
    c_path,      \* target_path handed to assemble_package_chains
    heap,        \* the element objects: the inputs first, then the copies
    progress_chain, \* the in-progress chains, each a list of object ids
    c_pos,       \* how many elements of c_path have been processed
    c_pc,        \* idle, running, returned or raised
    f_args,      \* the arguments of from_element_path
    f_idx,       \* how many groups of the leaf have been processed
    f_proto,     \* the locals proto_name and proto_file_name
    f_out,       \* pvpacks_output_list
    f_rejects,   \* reject_list
    f_pc,        \* idle, running, returned or raised
    col,         \* an ElementCollector: its entries, in insertion order
    added        \* the values handed to add so far, in call order

pkgVars == <<in_path, in_pragma, edits, pkg, last_call, removed>>
chainVars == <<c_path, heap, progress_chain, c_pos, c_pc>>
fromVars == <<f_args, f_idx, f_proto, f_out, f_rejects, f_pc>>
collVars == <<col, added>>

NoCall == [op |-> "none"]
NotRemoved == [done |-> FALSE]

PkgInit ==
    /\ in_path \in { PlainPath(n) : n \in 1..MaxPath }
    /\ in_pragma \in FixtureGroups
    /\ edits = 0
    /\ pkg = [st |-> "none"]
    /\ last_call = NoCall
    /\ removed = NotRemoved
    /\ c_path = <<>> /\ heap = <<>> /\ progress_chain = <<>>
    /\ c_pos = 0 /\ c_pc = "idle"
    /\ f_args = [target_path |-> <<>>] /\ f_idx = 0 /\ f_proto = <<>>
    /\ f_out = <<>> /\ f_rejects = <<>> /\ f_pc = "idle"
    /\ col = <<>> /\ added = <<>>

\* The caller prepares the pragma group: one more record at the end.
EditAppend ==
    /\ pkg.st = "none" /\ edits < MaxEdits
    /\ \E row \in EditRows : in_pragma' = Append(in_pragma, row)
    /\ edits' = edits + 1
    /\ UNCHANGED <<in_path, pkg, last_call, removed, chainVars, fromVars, collVars>>

\* The caller prepares the pragma group: one record taken out.
EditRemove ==
    /\ pkg.st = "none" /\ edits < MaxEdits
    /\ \E n \in 1..Len(in_pragma) : in_pragma' = RemoveAt(in_pragma, n)
    /\ edits' = edits + 1
    /\ UNCHANGED <<in_path, pkg, last_call, removed, chainVars, fromVars, collVars>>

\* pkg = PvPackage(target_path, pragma)
Construct ==
    /\ pkg.st = "none"
    /\ pkg' = PvPackageInit(in_path, in_pragma, PyNone, PyNone, TRUE)
    /\ UNCHANGED <<in_path, in_pragma, edits, last_call, removed, chainVars, fromVars, collVars>>

\* PvPackage(target_path, pragma) once more, from the same inputs.
Reconstruct ==
    /\ pkg.st # "none"
    /\ last_call' = [op |-> "construct",
                     res |-> PvPackageInit(in_path, in_pragma, PyNone, PyNone, TRUE)]
    /\ UNCHANGED <<in_path, in_pragma, edits, pkg, removed, chainVars, fromVars, collVars>>

\* pkg.term_exists(req_line), for a rule line of the package's rule table
TermExists ==
    /\ pkg.st = "ok"
    /\ \E n \in 1..Len(pkg.v.req_fields) :
          last_call' = [op |-> "term_exists", rule |-> n,
                        res |-> term_exists(pkg.v.pragma, pkg.v.req_fields[n])]
    /\ UNCHANGED <<in_path, in_pragma, edits, pkg, removed, chainVars, fromVars, collVars>>

\* pkg.missing_pragma_lines()
MissingPragmaLines ==
    /\ pkg.st = "ok"
    /\ last_call' = [op |-> "missing_pragma_lines", res |-> missing_pragma_lines(pkg.v)]
    /\ UNCHANGED <<in_path, in_pragma, edits, pkg, removed, chainVars, fromVars, collVars>>

\* pkg.is_config_complete
IsConfigComplete ==
    /\ pkg.st = "ok"
    /\ last_call' = [op |-> "is_config_complete", res |-> is_config_complete(pkg.v)]
    /\ UNCHANGED <<in_path, in_pragma, edits, pkg, removed, chainVars, fromVars, collVars>>

\* del pkg.pragma[n]: one record leaves the package's own pragma copy.
RemoveRecord ==
    /\ pkg.st = "ok" /\ ~removed.done
    /\ \E n \in 1..Len(pkg.v.pragma) :
          /\ pkg' = [pkg EXCEPT !.v.pragma = RemoveAt(@, n)]
          /\ removed' = [done |-> TRUE, row |-> pkg.v.pragma[n],
                         before |-> is_config_complete(pkg.v)]
    /\ last_call' = NoCall
    /\ UNCHANGED <<in_path, in_pragma, edits, chainVars, fromVars, collVars>>

PkgNext ==
    \/ EditAppend
    \/ EditRemove
    \/ Construct
    \/ Reconstruct
    \/ TermExists
    \/ MissingPragmaLines
    \/ IsConfigComplete
    \/ RemoveRecord

\* -------------------------------------------------------- chain expansion
Digit == <<"1", "2", "3", "4", "5">>

\* The j-th group of the n-th element of a chain: its pv line only.
PvGroup(n, j) == << Line("pv", ElemName[n] \o Digit[j]) >>

\* A target_path whose n-th element exposes m[n] groups.
ChainPath(m) == [n \in 1..Len(m) |-> Element(n, [j \in 1..m[n] |-> PvGroup(n, j)])]

\* The group counts of the target_paths the model draws.
GroupCounts == UNION { [1..len -> 0..MaxGroups] : len \in 0..MaxPath }

\* An element object: the element's fields, with where it came from (src: its
\* place in target_path; grp: the group it was bound to, 0 for an input).
Object(e, n) == [name |-> e.name, pv |-> PyStr(e.pv), groups |-> e.groups,
                 src |-> n, grp |-> 0]

\* copy(target) with the copy dropped: element_copy = target.
AliasElement(h, id) == [heap |-> h, id |-> id]

\* element_copy = copy(target): a new object with the fields of the old one.
CopyElement(h, id) == [heap |-> Append(h, h[id]), id |-> Len(h) + 1]

\* element_copy.freeze_pv(pv_line): the pv is bound on this object.
freeze_pv(h, id, pv_line) == [h EXCEPT ![id].pv = pv_line]

RECURSIVE NewElementsFrom(_, _, _, _)
\* for config_set in target.config_by_pv(): ... new_elements.append(element_copy)
NewElementsFrom(h, target, j, new_elements) ==
    IF j > Len(config_by_pv(h[target])) THEN [heap |-> h, new_elements |-> new_elements]
    ELSE LET pv_line == parse_pragma("pv", config_by_pv(h[target])[j])
             c == CopyElement(h, target)
             h2 == freeze_pv(c.heap, c.id, pv_line)
             h3 == [h2 EXCEPT ![c.id].grp = j]
         IN NewElementsFrom(h3, target, j + 1, Append(new_elements, c.id))

RECURSIVE ExtendChain(_, _, _, _)
\* for new_elem_idx in range(len(new_elements)): the first new element is
\* appended to chain chain_idx in place; each further one is appended to a copy
\* of that chain as it then stands, added at the end of progress_chain.
ExtendChain(chains, new_elements, chain_idx, e) ==
    IF e > Len(new_elements) THEN chains
    ELSE IF e = 1
    THEN ExtendChain([chains EXCEPT ![chain_idx] = Append(@, new_elements[e])],
                     new_elements, chain_idx, e + 1)
    ELSE ExtendChain(Append(chains, Append(chains[chain_idx], new_elements[e])),
                     new_elements, chain_idx, e + 1)

RECURSIVE ExtendChains(_, _, _, _)
\* for chain_idx in range(len(progress_chain)), the length taken on entry
ExtendChains(chains, new_elements, chain_idx, len0) ==
    IF chain_idx > len0 THEN chains
    ELSE ExtendChains(ExtendChain(chains, new_elements, chain_idx, 1),
                      new_elements, chain_idx + 1, len0)

\* The body of one call of assemble_package_chains on target_path[n:], with
\* progress_chain as passed in: the chains after this element.
AssembleStep(h, chains, target) ==
    LET ne == NewElementsFrom(h, target, 1, <<>>)
        ext == ExtendChains(chains, ne.new_elements, 1, Len(chains))
    IN [heap |-> ne.heap,
        chains |-> IF Len(ext) = 0
                   THEN [e \in 1..Len(ne.new_elements) |-> <<ne.new_elements[e]>>]
                   ELSE ext]

\* A target_path is handed to assemble_package_chains; its elements are the
\* first objects of the heap.
ChainInit ==
    /\ c_path \in { ChainPath(m) : m \in GroupCounts }
    /\ heap = [n \in 1..Len(c_path) |-> Object(c_path[n], n)]
    /\ progress_chain = <<>>
    /\ c_pos = 0
    /\ c_pc = "idle"
    /\ in_path = <<>> /\ in_pragma = <<>> /\ edits = 0
    /\ pkg = [st |-> "idle"] /\ last_call = NoCall /\ removed = NotRemoved
    /\ f_args = [target_path |-> <<>>] /\ f_idx = 0 /\ f_proto = <<>>
    /\ f_out = <<>> /\ f_rejects = <<>> /\ f_pc = "idle"
    /\ col = <<>> /\ added = <<>>

\* PvPackage.assemble_package_chains(target_path): the first call, which takes
\* target_path[0] (IndexError on an empty path), and each recursive call on
\* target_path[1:], until one element is left.
AssembleCall ==
    /\ c_pc \in {"idle", "running"}
    /\ IF c_pos >= Len(c_path)
       THEN /\ c_pc' = "raised"
            /\ UNCHANGED <<heap, progress_chain, c_pos>>
       ELSE LET r == AssembleStep(heap, progress_chain, c_pos + 1)
            IN /\ heap' = r.heap
               /\ progress_chain' = r.chains
               /\ c_pos' = c_pos + 1
               /\ c_pc' = IF Len(c_path) - c_pos = 1 THEN "returned" ELSE "running"
    /\ UNCHANGED <<c_path, pkgVars, fromVars, collVars>>

\* ------------------------------------------------------ from_element_path
\* The groups a leaf may expose: groups A and B of the example scenario, a
\* group with no io record, one whose io names both directions, and one whose
\* io names neither.
LeafGroups ==
    { GroupA, GroupB,
      << Line("pv", "status"), Line("type", "bi") >>,
      << Line("pv", "both"), Line("type", "ao"), Line("io", "io") >>,
      << Line("pv", "raw"), Line("io", "x") >> }

LeafGroupLists == UNION { [1..len -> LeafGroups] : len \in 0..MaxLeafGroups }

AncestorCounts == UNION { [1..len -> 1..MaxGroups] : len \in 0..MaxAncestors }

\* A target_path: ancestors with m[n] >= 1 groups each, then a leaf with `groups`.
LeafPath(m, groups) == Append(ChainPath(m), Element(Len(m) + 1, groups))

\* The try block with the two tests swapped: "i" is looked for first.
ProtoNameIFirst(io_line, base_proto_name, proto_name) ==
    LET has_i == StrContains("i", io_line)
        has_o == StrContains("o", io_line)
        named(prefix) == LET sum == StrAdd(PyStr(prefix), base_proto_name)
                         IN IF sum.st = "ok" THEN sum.v ELSE base_proto_name
    IN IF has_i.st # "ok" THEN base_proto_name
       ELSE IF has_i.v THEN named("Get")
       ELSE IF has_o.v THEN named("Set")
       ELSE proto_name

\* try: if "o" in io_line: proto_name = "Set" + base_proto_name
\*      elif "i" in io_line: proto_name = "Get" + base_proto_name
\* except TypeError: proto_name = base_proto_name
\* The value of the local proto_name afterwards (unchanged when no branch ran).
ProtoNameFor(io_line, base_proto_name, proto_name) ==
    LET has_o == StrContains("o", io_line)
        has_i == StrContains("i", io_line)
        named(prefix) == LET sum == StrAdd(PyStr(prefix), base_proto_name)
                         IN IF sum.st = "ok" THEN sum.v ELSE base_proto_name
    IN IF has_o.st # "ok" THEN base_proto_name
       ELSE IF has_o.v THEN named("Set")
       ELSE IF has_i.v THEN named("Get")
       ELSE proto_name

\* use_proto as resolved on entry: given, or guessed from the proto arguments.
ResolveUseProto(args) ==
    IF args.use_proto = "None"
    THEN args.base_proto_name # PyNone \/ args.proto_file_name # PyNone
    ELSE args.use_proto = "True"

\* One pass of the loop over target_path[-1].config_by_pv(): the locals after
\* it and the package built, or the exception raised.
FromIterStep(args, locals, config_set) ==
    LET proto_name == IF locals.use_proto
                      THEN ProtoNameFor(parse_pragma("io", config_set),
                                        args.base_proto_name, locals.proto_name)
                      ELSE PyNone
        proto_file_name == IF locals.use_proto THEN locals.proto_file_name ELSE PyNone
        new_pvpack == PvPackageInit(args.target_path, config_set, proto_name,
                                    proto_file_name, locals.use_proto)
    IN IF proto_name.k = "unbound" THEN Raise("UnboundLocalError")
       ELSE IF new_pvpack.st # "ok" THEN new_pvpack
       ELSE Ok([locals |-> [locals EXCEPT !.proto_name = proto_name,
                                          !.proto_file_name = proto_file_name],
                new_pvpack |-> new_pvpack.v])

\* The arguments of a call of from_element_path.
FromInit ==
    /\ f_args \in
          { [target_path |-> LeafPath(m, g), base_proto_name |-> b,
             proto_file_name |-> f, use_proto |-> u, return_rejects |-> r] :
            m \in AncestorCounts, g \in LeafGroupLists,
            b \in {PyNone, PyStr("Foo")}, f \in {PyNone, PyStr("f.proto")},
            u \in {"None", "True", "False"}, r \in BOOLEAN }
    /\ f_idx = 0 /\ f_proto = <<>>
    /\ f_out = <<>> /\ f_rejects = <<>> /\ f_pc = "idle"
    /\ col = <<>> /\ added = <<>>
    /\ in_path = <<>> /\ in_pragma = <<>> /\ edits = 0
    /\ pkg = [st |-> "idle"] /\ last_call = NoCall /\ removed = NotRemoved
    /\ c_path = <<>> /\ heap = <<>> /\ progress_chain = <<>>
    /\ c_pos = 0 /\ c_pc = "idle"

\* from_element_path up to its second loop: the lists are created, use_proto is
\* resolved, and the first loop copies elements to no effect.
FromCall ==
    /\ f_pc = "idle"
    /\ f_proto' = [proto_name |-> Unbound,
                   proto_file_name |-> f_args.proto_file_name,
                   use_proto |-> ResolveUseProto(f_args)]
    /\ f_out' = <<>> /\ f_rejects' = <<>> /\ f_idx' = 0
    /\ f_pc' = "running"
    /\ UNCHANGED <<f_args, pkgVars, chainVars, collVars>>

\* One pass of the loop over the leaf's groups: a package is built and appended
\* to pvpacks_output_list, or the call ends with the exception.
FromIter ==
    /\ f_pc = "running"
    /\ LET leaf == f_args.target_path[Len(f_args.target_path)]
       IN /\ f_idx < Len(config_by_pv(leaf))
          /\ LET r == FromIterStep(f_args, f_proto, config_by_pv(leaf)[f_idx + 1])
             IN IF r.st = "ok"
                THEN /\ f_proto' = r.v.locals
                     /\ f_out' = Append(f_out, r.v.new_pvpack)
                     /\ f_idx' = f_idx + 1
                     /\ f_pc' = "running"
                ELSE /\ f_pc' = "raised"
                     /\ UNCHANGED <<f_proto, f_out, f_idx>>
    /\ UNCHANGED <<f_args, f_rejects, pkgVars, chainVars, collVars>>

\* The loop is over: pvpacks_output_list (and reject_list) are returned.
FromReturn ==
    /\ f_pc = "running"
    /\ f_idx = Len(config_by_pv(f_args.target_path[Len(f_args.target_path)]))
    /\ f_pc' = "returned"
    /\ UNCHANGED <<f_args, f_idx, f_proto, f_out, f_rejects, pkgVars, chainVars, collVars>>

FromNext ==
    \/ FromCall
    \/ FromIter
    \/ FromReturn

\* ------------------------------------------------------- ElementCollector
\* The values added: named instances, two distinguishable ones per name.
CollValues ==
    { [name |-> n, id |-> i] : n \in {"iterator", "VERSION", "MAIN.count"}, i \in {"a", "b"} }

\* The positions of the entries of dictionary d with this key.
KeyPositions(d, key) == { p \in 1..Len(d) : d[p].key = key }

\* dict.__setitem__ as a list append: the entry is added whatever d holds.
DictAppendItem(d, key, value) == Append(d, [key |-> key, value |-> value])

\* dict.__setitem__(d, key, value): the entry of an existing key gets the new
\* value where it stands, a new key gets a new entry at the end.
DictSetItem(d, key, value) ==
    IF KeyPositions(d, key) # {}
    THEN [p \in 1..Len(d) |-> IF d[p].key = key THEN [d[p] EXCEPT !.value = value]
                                                ELSE d[p]]
    ELSE Append(d, [key |-> key, value |-> value])

\* A new, empty ElementCollector.
CollInit ==
    /\ col = <<>> /\ added = <<>>
    /\ in_path = <<>> /\ in_pragma = <<>> /\ edits = 0
    /\ pkg = [st |-> "idle"] /\ last_call = NoCall /\ removed = NotRemoved
    /\ c_path = <<>> /\ heap = <<>> /\ progress_chain = <<>>
    /\ c_pos = 0 /\ c_pc = "idle"
    /\ f_args = [target_path |-> <<>>] /\ f_idx = 0 /\ f_proto = <<>>
    /\ f_out = <<>> /\ f_rejects = <<>> /\ f_pc = "idle"

\* ElementCollector.add(value): name = value.name; dict.__setitem__(self, name, value)
CollAdd ==
    /\ Len(added) < MaxAdds
    /\ \E value \in CollValues :
          /\ col' = DictSetItem(col, value.name, value)
          /\ added' = Append(added, value)
    /\ UNCHANGED <<pkgVars, chainVars, fromVars>>

vars == <<pkgVars, chainVars, fromVars, collVars>>

\* Packages constructed directly and queried.
Init == PkgInit
Next == PkgNext
Spec == Init /\ [][Next]_vars

\* Chain expansion.
ChainSpec == ChainInit /\ [][AssembleCall]_vars

\* from_element_path.
FromSpec == FromInit /\ [][FromNext]_vars

\* ElementCollector.add.
CollSpec == CollInit /\ [][CollAdd]_vars

\* ---------------------------------------------------------------- claims
\* The rows of a group titled 'pv'.
PvRows(pragma) == { n \in 1..Len(pragma) : pragma[n].d.title = PyStr("pv") }

RECURSIVE JoinAncestors(_, _)
\* pv(e_n) ":" pv(e_n+1) ":" ... for the elements before the last.
JoinAncestors(path, n) ==
    IF n >= Len(path) THEN "" ELSE (path[n].pv \o ":") \o JoinAncestors(path, n + 1)

\* A row satisfies a rule line: every key path can be followed and ends in the
\* required value.
RowSatisfies(row, req_line) ==
    \A n \in 1..Len(req_line) :
        LET w == WalkFrom(row, req_line[n].loc, 1)
        IN w.st = "ok" /\ w.v = PyStr(req_line[n].term)

GroupSatisfies(pragma, req_line) ==
    \E r \in 1..Len(pragma) : RowSatisfies(pragma[r], req_line)

\* A 'field' record whose tag is a plain string.
PlainField(row) == row.d.title = PyStr("field") /\ row.d.tag.k = "str"

\* C4: a package built from a group with exactly one pv record has that
\* record's tag as pv_partial, and pv_complete is the pv of every element but
\* the last, root to leaf, each followed by ':', then pv_partial; building it
\* again from the same inputs gives the same pv_complete.
C4_PvComplete ==
    (pkg.st = "ok" /\ Cardinality(PvRows(in_pragma)) = 1) =>
        LET r == CHOOSE n \in PvRows(in_pragma) : TRUE
        IN /\ PyStr(pkg.v.pv_partial) = in_pragma[r].d.tag
           /\ pkg.v.pv_complete = JoinAncestors(in_path, 1) \o pkg.v.pv_partial
           /\ last_call.op = "construct" =>
                 /\ last_call.res.st = "ok"
                 /\ last_call.res.v.pv_complete = pkg.v.pv_complete

C4_Witness ==
    /\ pkg.st = "ok" /\ Cardinality(PvRows(in_pragma)) = 1
    /\ Len(in_path) = 3
    /\ pkg.v.pv_complete = "MAIN:dev:count"
    /\ last_call.op = "construct"

\* C5: constructing a package from a group with zero pv records, or with more
\* than one, fails and yields no package.
C5_ExactlyOnePv ==
    (pkg.st # "none" /\ Cardinality(PvRows(in_pragma)) # 1) => pkg.st # "ok"

\* C6: term_exists never raises; it is true iff some record satisfies every
\* key-path/value requirement of the rule line, a record whose key path cannot
\* be followed counting as no match.
C6_TermExistsTotal ==
    last_call.op = "term_exists" =>
        /\ last_call.res.st = "ok"
        /\ last_call.res.v = GroupSatisfies(pkg.v.pragma, pkg.v.req_fields[last_call.rule])

\* C7: missing_pragma_lines() returns the rule lines of the legacy table with no
\* matching record, in declaration order, and is_config_complete is true iff
\* that list is empty.
C7_MissingIsFilter ==
    /\ last_call.op = "missing_pragma_lines" =>
          /\ last_call.res.st = "ok"
          /\ last_call.res.v =
                SelectSeq(ReqFieldsLegacy,
                          LAMBDA line : ~GroupSatisfies(pkg.v.pragma, line))
    /\ last_call.op = "is_config_complete" =>
          /\ last_call.res.st = "ok"
          /\ last_call.res.v = (\A n \in 1..Len(ReqFieldsLegacy) :
                                   GroupSatisfies(pkg.v.pragma, ReqFieldsLegacy[n]))

\* The removed record satisfied some rule line of the legacy table.
RemovedRequired ==
    \E n \in 1..Len(ReqFieldsLegacy) : RowSatisfies(removed.row, ReqFieldsLegacy[n])

\* The removed record was the only one satisfying some rule line.
RemovedSole ==
    \E n \in 1..Len(ReqFieldsLegacy) :
        /\ RowSatisfies(removed.row, ReqFieldsLegacy[n])
        /\ ~GroupSatisfies(pkg.v.pragma, ReqFieldsLegacy[n])

\* The group has exactly one pv record and no field record with a plain-string
\* tag.
WellFormed(pragma) ==
    /\ Cardinality(PvRows(pragma)) = 1
    /\ \A r \in 1..Len(pragma) : ~PlainField(pragma[r])

\* C8 as stated: removing any one record that satisfies a rule line from a
\* complete package makes is_config_complete false.  Stated here for the
\* packages built from well-formed groups only.
C8_RemoveAnyRequired ==
    (removed.done /\ removed.before = Ok(TRUE) /\ RemovedRequired /\ WellFormed(in_pragma)) =>
        is_config_complete(pkg.v) = Ok(FALSE)

\* C8 amended: removing from a complete package a record that is the only one
\* satisfying some rule line makes is_config_complete false, or makes it raise
\* TypeError when a field record with a plain-string tag is left in the group.
C8_RemoveSoleRequired ==
    (removed.done /\ removed.before = Ok(TRUE) /\ RemovedSole) =>
        /\ \/ is_config_complete(pkg.v) = Ok(FALSE)
           \/ /\ is_config_complete(pkg.v) = Raise("TypeError")
              /\ \E r \in 1..Len(pkg.v.pragma) : PlainField(pkg.v.pragma[r])
        /\ last_call.op = "is_config_complete" => last_call.res # Ok(TRUE)

C8_Witness ==
    /\ removed.done /\ removed.before = Ok(TRUE) /\ RemovedSole
    /\ last_call.op = "is_config_complete"
    /\ last_call.res = Ok(FALSE)

\* The product m_1 * ... * m_k of the group counts along a path.
RECURSIVE GroupProduct(_, _)
GroupProduct(path, n) ==
    IF n > Len(path) THEN 1 ELSE Len(path[n].groups) * GroupProduct(path, n + 1)

\* The (element, group) choices a chain stands for.
Combination(ch) == [n \in 1..Len(ch) |-> <<heap[ch[n]].src, heap[ch[n]].grp>>]

\* C1: assemble_package_chains on k >= 1 elements with m_i >= 0 groups returns
\* exactly m_1 * ... * m_k chains, no two of them the same combination of
\* chosen groups.
C1_CartesianCount ==
    c_pc = "returned" =>
        /\ Len(progress_chain) = GroupProduct(c_path, 1)
        /\ \A a, b \in 1..Len(progress_chain) :
              a # b => Combination(progress_chain[a]) # Combination(progress_chain[b])

\* C10: chain expansion leaves the pv of every input element as it was; every
\* chain entry is a copy carrying the pv of the group it was bound to, so two
\* chains that diverge at an element hold different objects for it, each with
\* its own group's pv.
C10_NoAliasing ==
    c_pc \in {"running", "returned"} =>
        /\ \A n \in 1..Len(c_path) : heap[n] = Object(c_path[n], n)
        /\ \A a \in 1..Len(progress_chain) : \A p \in 1..Len(progress_chain[a]) :
              LET o == heap[progress_chain[a][p]]
              IN /\ progress_chain[a][p] > Len(c_path)
                 /\ o.grp \in 1..Len(c_path[o.src].groups)
                 /\ o.pv = parse_pragma("pv", c_path[o.src].groups[o.grp])
        /\ \A a, b \in 1..Len(progress_chain) :
              \A p \in 1..Len(progress_chain[a]) : \A q \in 1..Len(progress_chain[b]) :
                 LET x == heap[progress_chain[a][p]]
                     y == heap[progress_chain[b][q]]
                 IN (x.src = y.src /\ x.grp # y.grp) =>
                       /\ progress_chain[a][p] # progress_chain[b][q]
                       /\ x.pv # y.pv

C10_Witness ==
    /\ c_pc = "returned"
    /\ \E a, b \in 1..Len(progress_chain) :
          /\ Len(progress_chain[a]) = Len(c_path)
          /\ Len(progress_chain[b]) = Len(c_path)
          /\ \E p \in 1..Len(c_path) :
                /\ p < Len(c_path)
                /\ heap[progress_chain[a][p]].src = p
                /\ heap[progress_chain[b][p]].src = p
                /\ heap[progress_chain[a][p]].pv = PyStr("MAIN1")
                /\ heap[progress_chain[b][p]].pv = PyStr("MAIN2")
                /\ heap[p].pv = PyStr("MAIN")

\* The rows of a group titled 'io' whose value holds the character c.
IoRowsWith(pragma, c) ==
    { n \in 1..Len(pragma) :
        /\ pragma[n].d.title = PyStr("io")
        /\ pragma[n].d.tag.k = "str"
        /\ \E x \in 1..Len(Chars(pragma[n].d.tag.s)) : Chars(pragma[n].d.tag.s)[x] = c }

IoRows(pragma) == { n \in 1..Len(pragma) : pragma[n].d.title = PyStr("io") }

LeafOf(path) == path[Len(path)]

\* C2: from_element_path builds one package per expanded path: the packages
\* produced, accepted plus rejected, number m_1 * ... * m_k, each with one of
\* the leaf's groups as its pragma.
C2_OnePackagePerPath ==
    f_pc = "returned" =>
        /\ Len(f_out) + Len(f_rejects) = GroupProduct(f_args.target_path, 1)
        /\ \A n \in 1..Len(f_out) :
              \E j \in 1..Len(LeafOf(f_args.target_path).groups) :
                 f_out[n].pragma = LeafOf(f_args.target_path).groups[j]

\* C3: with return_rejects, the packages are partitioned: the accepted list
\* holds those with no missing rule line, the rejected list the others; a leaf
\* with groups A and B gives one rejected and one accepted package.
C3_RejectsPartition ==
    (f_pc = "returned" /\ f_args.return_rejects) =>
        /\ \A n \in 1..Len(f_out) : missing_pragma_lines(f_out[n]) = Ok(<<>>)
        /\ LeafOf(f_args.target_path).groups = <<GroupA, GroupB>> =>
              Len(f_out) = 1 /\ Len(f_rejects) = 1

\* Stub usage was requested with the base stub name 'Foo'.
FooRequested == f_args.base_proto_name = PyStr("Foo") /\ f_proto.use_proto

\* C9 as stated: proto_name is 'GetFoo' when the package's group has an io
\* record containing 'i', 'SetFoo' when it contains 'o', 'Foo' with no io
\* record.
C9_ProtoNameByIo ==
    (f_pc \in {"running", "returned"} /\ FooRequested) =>
        \A n \in 1..Len(f_out) :
            /\ IoRowsWith(f_out[n].pragma, "i") # {} => f_out[n].proto_name = PyStr("GetFoo")
            /\ IoRowsWith(f_out[n].pragma, "o") # {} => f_out[n].proto_name = PyStr("SetFoo")
            /\ IoRows(f_out[n].pragma) = {} => f_out[n].proto_name = PyStr("Foo")

\* C9 amended: 'SetFoo' when the io value contains 'o', 'GetFoo' when it
\* contains 'i' and no 'o', 'Foo' with no io record; for each group of the leaf
\* whatever the other groups are.
C9_ProtoNameSetFirst ==
    (f_pc \in {"running", "returned"} /\ FooRequested) =>
        \A n \in 1..Len(f_out) :
            /\ IoRowsWith(f_out[n].pragma, "o") # {} => f_out[n].proto_name = PyStr("SetFoo")
            /\ (IoRowsWith(f_out[n].pragma, "i") # {} /\ IoRowsWith(f_out[n].pragma, "o") = {})
                  => f_out[n].proto_name = PyStr("GetFoo")
            /\ IoRows(f_out[n].pragma) = {} => f_out[n].proto_name = PyStr("Foo")

C9_Witness ==
    /\ f_pc = "returned" /\ FooRequested
    /\ Len(f_out) = 2
    /\ f_out[1].proto_name = PyStr("SetFoo") /\ IoRowsWith(f_out[1].pragma, "i") # {}
    /\ f_out[2].proto_name = PyStr("Foo") /\ IoRows(f_out[2].pragma) = {}

\* The names handed to add so far.
AddedNames == { added[n].name : n \in 1..Len(added) }

\* The last value handed to add under this name.
LastAdded(name) ==
    added[CHOOSE n \in 1..Len(added) :
             /\ added[n].name = name
             /\ \A m \in (n + 1)..Len(added) : added[m].name # name]

\* C11: after any sequence of add calls the collector holds exactly one entry
\* per distinct name added, keyed by that name and mapped to the value added
\* last under it; adding a name already present leaves the number of entries
\* as it was.
C11_OneEntryPerName ==
    /\ { col[p].key : p \in 1..Len(col) } = AddedNames
    /\ Len(col) = Cardinality(AddedNames)
    /\ \A p \in 1..Len(col) : col[p].value = LastAdded(col[p].key)

C11_Witness ==
    /\ Len(added) = 3 /\ Len(col) = 2
    /\ added[1].name = "VERSION" /\ added[3].name = "VERSION"
    /\ added[1] # added[3]
    /\ \E p \in 1..Len(col) : col[p].key = "VERSION" /\ col[p].value = added[3]

\* Every element of the path exposes at least one group.
AllHaveGroups == \A n \in 1..Len(c_path) : Len(c_path[n].groups) >= 1

\* C12: once the first i elements of target_path are processed, every chain has
\* exactly i entries, the j-th a copy of the j-th element bound to one of its
\* groups; so every returned chain has k entries in root-to-leaf order.  Stated
\* here for the paths whose elements all expose at least one group.
C12_ChainsAligned ==
    (c_pc \in {"running", "returned"} /\ AllHaveGroups) =>
        \A a \in 1..Len(progress_chain) :
            /\ Len(progress_chain[a]) = c_pos
            /\ \A j \in 1..Len(progress_chain[a]) :
                  LET o == heap[progress_chain[a][j]]
                  IN /\ progress_chain[a][j] > Len(c_path)
                     /\ o.src = j
                     /\ o.grp \in 1..Len(c_path[j].groups)

====
